---- MODULE Spec2Model ----
(***************************************************************************)
(* Transfer and chip planning of the FPL assistant                         *)
(* (src/transfer_optimizer.py, with the parts of src/fpl_api.py and        *)
(* src/models.py it reads).                                                *)
(*                                                                         *)
(* Numbers.  Python floats are modelled in fixed point:                    *)
(*   - prices, cost differences and the bank are integer tenths of a       *)
(*     million (the API's now_cost; value = now_cost / 10);                *)
(*   - form and ict_index are integer tenths (the API sends them with one  *)
(*     decimal);                                                           *)
(*   - points, projections and multipliers are integer thousandths         *)
(*     (4 points = 4000, multiplier 1.0 = 1000), every product or quotient *)
(*     rounded down to a thousandth;                                       *)
(*   - a value_ratio is kept as the exact fraction <<num, den>> and two    *)
(*     ratios are compared by cross multiplication.                        *)
(***************************************************************************)
EXTENDS Integers, Sequences, FiniteSets, TLC

VARIABLES
    \* FPLApiClient / TransferOptimizer object state (the data snapshot)
    players_df,          \* sequence of player rows, in DataFrame order
    fixtures_df,         \* sequence of fixture rows, in DataFrame order
    current_gw,          \* api.get_current_gameweek()
    \* optimize_transfers: arguments
    pc,                  \* "idle" | "select" | "convert" | "done"
    bank,                \* user_strategy.bank (tenths)
    free_transfers,      \* user_strategy.free_transfers
    current_team,        \* set of player ids
    weeks_ahead,
    max_transfers,
    allow_hits,
    \* _solve_transfer_optimization: locals
    transfer_candidates, \* the sorted candidate list
    cursor,              \* index of the candidate the for loop is at
    selected_transfers,
    used_players_out,
    used_players_in,
    remaining_budget,
    recommendations,     \* the returned list
    considered,          \* log: one entry per candidate the loop body decided
    \* ChipPlanner.create_chip_strategy
    chip_pc,             \* "idle" | "done"
    chips_remaining,     \* user_strategy.chips_remaining: chip type -> count
    planned_chips,       \* user_strategy.planned_chips
    fixture_analysis,    \* gameweek -> analysis record
    double_gameweeks,    \* sorted list
    blank_gameweeks,     \* sorted list
    strategies,          \* the returned list of ChipStrategy
    \* the readers of the difficulty table: _get_player_fixture_difficulty,
    \* AnalysisEngine.predict_player_points, _calculate_player_projections
    query_pc,            \* "idle" | "done"
    query_kind,          \* "none" | "difficulty" | "predict" | "projections"
    query_player,        \* player_id (0: none)
    query_weeks,         \* weeks / gameweeks / weeks_ahead
    difficulty_table,    \* what api.get_team_difficulty() returned
    player_difficulties, \* the list _get_player_fixture_difficulty returned
    predicted_points,    \* what predict_player_points returned (thousandths)
    player_projections,  \* the map _calculate_player_projections returned
    \* the caller's record of a finished optimize_transfers call
    last_call,           \* which call, its arguments and the list it returned
    \* FPLApiClient._make_request
    request_pc,          \* "idle" | "attempt" | "returned" | "raised"
    attempt,             \* the loop variable
    attempts_made,       \* how often session.get was called
    last_exception,      \* "none" or the error of the last failed attempt
    sleep_times,         \* the arguments of time.sleep, in tenths of a second
    request_result       \* "none" | "json" | the error raised

tvars == <<pc, bank, free_transfers, current_team, weeks_ahead, max_transfers,
           allow_hits, transfer_candidates, cursor, selected_transfers,
           used_players_out, used_players_in, remaining_budget,
           recommendations, considered>>

dvars == <<players_df, fixtures_df, current_gw>>

cvars == <<chip_pc, chips_remaining, planned_chips, fixture_analysis,
           double_gameweeks, blank_gameweeks, strategies>>

qvars == <<query_pc, query_kind, query_player, query_weeks, difficulty_table,
           player_difficulties, predicted_points, player_projections>>

hvars == <<last_call>>

rvars == <<request_pc, attempt, attempts_made, last_exception, sleep_times,
           request_result>>

vars == <<dvars, tvars, cvars, qvars, hvars, rvars>>

----------------------------------------------------------------------------
(* Bounds of the model *)

\* bank ranges over 0..MaxBank tenths
MaxBank == 1
\* user_strategy.free_transfers ranges over 0..MaxFreeTransfers
MaxFreeTransfers == 1
\* max_transfers ranges over 0..MaxMaxTransfers
MaxMaxTransfers == 2
\* weeks_ahead ranges over MinWeeks..MaxWeeks
MaxWeeks == 2

MinWeeks == 0 - 1

----------------------------------------------------------------------------
(* Helpers *)

Max(a, b) == IF a >= b THEN a ELSE b
Min(a, b) == IF a <= b THEN a ELSE b
Abs(a) == IF a < 0 THEN 0 - a ELSE a

RECURSIVE SumSeq(_)
SumSeq(s) == IF s = <<>> THEN 0 ELSE Head(s) + SumSeq(Tail(s))

\* s[:n] of Python: a negative n counts from the end
PySlicePrefix(s, n) ==
    LET k == IF n >= 0 THEN Min(n, Len(s)) ELSE Max(Len(s) + n, 0)
    IN  SubSeq(s, 1, k)

----------------------------------------------------------------------------
(* The data snapshot: players (bootstrap elements) and fixtures *)

\* Rows a player of the snapshot can be (the player's id is its row number).
\* points_per_game is derived from total_points and starts as get_players_data
\* derives it.
PlayerCatalogue ==
    { [element_type |-> 2, team |-> 1, now_cost |-> 50, form10 |-> 20,
       total_points |-> 20, starts |-> 10, minutes |-> 900, bonus |-> 0,
       clean_sheets |-> 0, goals_scored |-> 0, assists |-> 0, ict10 |-> 0],
      [element_type |-> 2, team |-> 1, now_cost |-> 51, form10 |-> 50,
       total_points |-> 50, starts |-> 10, minutes |-> 900, bonus |-> 0,
       clean_sheets |-> 0, goals_scored |-> 0, assists |-> 0, ict10 |-> 0],
      [element_type |-> 2, team |-> 1, now_cost |-> 48, form10 |-> 70,
       total_points |-> 70, starts |-> 10, minutes |-> 900, bonus |-> 0,
       clean_sheets |-> 0, goals_scored |-> 0, assists |-> 0, ict10 |-> 0],
      [element_type |-> 3, team |-> 2, now_cost |-> 50, form10 |-> 60,
       total_points |-> 66, starts |-> 11, minutes |-> 800, bonus |-> 6,
       clean_sheets |-> 2, goals_scored |-> 3, assists |-> 2, ict10 |-> 400] }

\* bootstrap['teams']
Teams == {1, 2}

Fixture(gw, h, a, hd, ad) ==
    [event |-> gw, team_h |-> h, team_a |-> a,
     team_h_difficulty |-> hd, team_a_difficulty |-> ad]

\* The fixture list of the transfer runs: team 1 meets neutral difficulty,
\* team 2 an easier run, from gameweek 10 on.
TransferFixtures ==
    << Fixture(10, 1, 2, 3, 2), Fixture(11, 2, 1, 2, 3),
       Fixture(12, 1, 2, 3, 3), Fixture(13, 2, 1, 2, 3) >>

WithId(row, i) ==
    [id |-> i, element_type |-> row.element_type, team |-> row.team,
     now_cost |-> row.now_cost, form10 |-> row.form10,
     total_points |-> row.total_points, starts |-> row.starts,
     minutes |-> row.minutes, bonus |-> row.bonus,
     clean_sheets |-> row.clean_sheets, goals_scored |-> row.goals_scored,
     assists |-> row.assists, ict10 |-> row.ict10]

\* df['value'] = df['now_cost'] / 10, kept in tenths
Value(player) == player.now_cost

\* df['points_per_game'] = total_points / starts.replace(0, 1), in thousandths
PointsPerGame(player) ==
    (1000 * player.total_points) \div (IF player.starts = 0 THEN 1 ELSE player.starts)

----------------------------------------------------------------------------
(* FPLApiClient.get_team_difficulty *)

\* the difficulty a fixture has for a team that plays in it
FixtureDifficultyFor(fx, team_id) ==
    IF fx.team_h = team_id THEN fx.team_h_difficulty ELSE fx.team_a_difficulty

RECURSIVE DifficultiesOf(_, _)
DifficultiesOf(fxs, team_id) ==
    IF fxs = <<>> THEN <<>>
    ELSE <<FixtureDifficultyFor(Head(fxs), team_id)>> \o DifficultiesOf(Tail(fxs), team_id)

\* team id -> the difficulties of its fixtures of the next 6 gameweeks
get_team_difficulty ==
    LET InWindow(fx) == fx.event >= current_gw /\ fx.event <= current_gw + 5
        upcoming == SelectSeq(fixtures_df, InWindow)
    IN  [t \in Teams |->
            LET Plays(fx) == fx.team_h = t \/ fx.team_a = t
            IN  DifficultiesOf(SelectSeq(upcoming, Plays), t)]

----------------------------------------------------------------------------
(* TransferOptimizer: the projection model *)

\* (0.6 form + 0.4 points_per_game) * weeks * minutes factor * bonus factor
calculate_base_projection(player, weeks) ==
    LET form_projection == (player.form10 * 100 * weeks * 6) \div 10
        season_projection == (PointsPerGame(player) * weeks * 4) \div 10
        minutes_factor == Min((1000 * player.minutes) \div (current_gw * 90), 1000)
        base_projection == ((form_projection + season_projection) * minutes_factor) \div 1000
        bonus_factor == 1000 + (100 * player.bonus) \div Max(player.total_points, 1)
    IN  (base_projection * bonus_factor) \div 1000

calculate_fixture_adjustment(team_id, team_difficulty, weeks) ==
    IF team_id \notin DOMAIN team_difficulty THEN 1000
    ELSE LET difficulties == PySlicePrefix(team_difficulty[team_id], weeks)
         IN  IF difficulties = <<>> THEN 1000
             ELSE LET n == Len(difficulties)
                      \* 1.0 + (3.0 - avg_difficulty) * 0.1
                      multiplier == 1000 + ((3 * n - SumSeq(difficulties)) * 100) \div n
                  IN  Max(800, Min(1200, multiplier))

calculate_position_adjustment(player) ==
    IF player.element_type = 1
    THEN 1000 + (100 * player.clean_sheets) \div Max(player.starts, 1)
    ELSE IF player.element_type = 2
    THEN 1000 + 10 * (player.goals_scored + player.assists)
    ELSE IF player.element_type = 3
    THEN 1000 + player.ict10 \div 20
    ELSE 1000 + 10 * player.goals_scored

calculate_availability_adjustment(player) ==
    LET games_started == Max(player.starts, 1)
        full == Min((1000 * player.minutes) \div (90 * games_started), 1000)
        availability_factor ==
            IF player.minutes < games_started * 45 THEN (full * 9) \div 10 ELSE full
    IN  Max(700, availability_factor)

PlayerProjection(player, weeks) ==
    LET base_points == calculate_base_projection(player, weeks)
        fixture_adjustment ==
            calculate_fixture_adjustment(player.team, get_team_difficulty, weeks)
        position_adjustment == calculate_position_adjustment(player)
        availability_adjustment == calculate_availability_adjustment(player)
        final_projection ==
            (((((base_points * fixture_adjustment) \div 1000)
                * position_adjustment) \div 1000) * availability_adjustment) \div 1000
    IN  Max(0, final_projection)

\* player id -> projected points (thousandths) over weeks
calculate_player_projections(weeks) ==
    [i \in 1..Len(players_df) |-> PlayerProjection(players_df[i], weeks)]

----------------------------------------------------------------------------
(* TransferOptimizer._solve_transfer_optimization: the candidate search *)

\* mutant of SamePosition: the position filter is missing
AnyPosition(current_player, candidate) == TRUE

\* position_players: the available players of the current player's position
SamePosition(current_player, candidate) ==
    candidate.element_type = current_player.element_type

\* "Check if affordable": cost_diff <= user_strategy.bank
Affordable(cost_diff, user_bank) == cost_diff <= user_bank

\* a pair without a gain becomes a candidate, too
HoldsOrImproves(points_improvement) == points_improvement >= 0

\* only a pair with a positive gain becomes a candidate
Improves(points_improvement) == points_improvement > 0

\* points_improvement / max(abs(cost_diff), 0.1), as the fraction
\* thousandths of a point over tenths of a million
ValueRatio(points_improvement, cost_diff) ==
    <<points_improvement, Max(Abs(cost_diff), 1)>>

TransferCandidate(current_player, candidate, projections) ==
    LET cost_diff == Value(candidate) - Value(current_player)
        points_improvement == projections[candidate.id] - projections[current_player.id]
    IN  [out_id |-> current_player.id, in_id |-> candidate.id,
         cost_change |-> cost_diff,
         points_improvement |-> points_improvement,
         value_ratio |-> ValueRatio(points_improvement, cost_diff)]

\* the inner loop: the candidates of one current player, in pool order
RECURSIVE CandidatesFor(_, _, _, _)
CandidatesFor(current_player, available, projections, user_bank) ==
    IF available = <<>> THEN <<>>
    ELSE LET candidate == Head(available)
             c == TransferCandidate(current_player, candidate, projections)
             rest == CandidatesFor(current_player, Tail(available), projections, user_bank)
         IN  IF /\ SamePosition(current_player, candidate)
                /\ Affordable(c.cost_change, user_bank)
                /\ Improves(c.points_improvement)
             THEN <<c>> \o rest
             ELSE rest

\* the outer loop: over the current team, in DataFrame order
RECURSIVE CandidatesOfTeam(_, _, _, _)
CandidatesOfTeam(team_rows, available, projections, user_bank) ==
    IF team_rows = <<>> THEN <<>>
    ELSE CandidatesFor(Head(team_rows), available, projections, user_bank)
            \o CandidatesOfTeam(Tail(team_rows), available, projections, user_bank)

\* transfer_candidates before the sort
GenerateCandidates(team, projections, user_bank) ==
    LET InTeam(row) == row.id \in team
        NotInTeam(row) == row.id \notin team
        current_team_df == SelectSeq(players_df, InTeam)
        available_players == SelectSeq(players_df, NotInTeam)
    IN  CandidatesOfTeam(current_team_df, available_players, projections, user_bank)

\* a's value_ratio > b's value_ratio
RatioGreater(a, b) ==
    a.value_ratio[1] * b.value_ratio[2] > b.value_ratio[1] * a.value_ratio[2]

RatioEqual(a, b) ==
    a.value_ratio[1] * b.value_ratio[2] = b.value_ratio[1] * a.value_ratio[2]

\* mutant of InsertDescending: x goes in front of the elements it ties with
RECURSIVE InsertBeforeEqual(_, _)
InsertBeforeEqual(sorted, x) ==
    IF sorted = <<>> THEN <<x>>
    ELSE IF ~RatioGreater(Head(sorted), x) THEN <<x>> \o sorted
         ELSE <<Head(sorted)>> \o InsertBeforeEqual(Tail(sorted), x)

\* x put into a descending list behind every element that is not smaller
RECURSIVE InsertDescending(_, _)
InsertDescending(sorted, x) ==
    IF sorted = <<>> THEN <<x>>
    ELSE IF RatioGreater(x, Head(sorted)) THEN <<x>> \o sorted
         ELSE <<Head(sorted)>> \o InsertDescending(Tail(sorted), x)

RECURSIVE SortInto(_, _)
SortInto(sorted, rest) ==
    IF rest = <<>> THEN sorted
    ELSE SortInto(InsertDescending(sorted, Head(rest)), Tail(rest))

\* mutant of SortByValueRatio: the list is left as generated
NoSort(candidates) == candidates

\* list.sort(key = value_ratio, reverse = True): descending, and stable
SortByValueRatio(candidates) == SortInto(<<>>, candidates)

----------------------------------------------------------------------------
(* TransferOptimizer._solve_transfer_optimization: the greedy selection *)

Candidate == transfer_candidates[cursor]

\* the for loop has a candidate to look at
HasCandidate == cursor <= Len(transfer_candidates)

\* mutant of MaxReached: the loop stops one transfer late
MaxExceeded == Len(selected_transfers) > max_transfers

\* if len(selected_transfers) >= max_transfers: break
MaxReached == Len(selected_transfers) >= max_transfers

\* mutant of DoubleBooked: only the outgoing player is checked
OutBooked(c) == c.out_id \in used_players_out

DoubleBooked(c) == c.out_id \in used_players_out \/ c.in_id \in used_players_in

\* mutant of OverBudget: the cost is compared with the bank, not with what is left
OverBank(c) == c.cost_change > bank

OverBudget(c) == c.cost_change > remaining_budget

\* "Check constraints": the candidate is skipped
ConstraintViolated(c) == DoubleBooked(c) \/ OverBudget(c)

\* the candidate would be a transfer beyond the free ones
NeedsHit == Len(selected_transfers) >= free_transfers

\* "Check if hit is worth it": not allow_hits or points_improvement < 4
HitRejected(c) == ~allow_hits \/ c.points_improvement < 4000

Logged(c, decision) ==
    Append(considered, [cand |-> c, accepted_before |-> Len(selected_transfers),
                        decision |-> decision])

\* a budget that starts from what the call on record left of the bank
LeftoverBudget(b) ==
    IF last_call.call = "optimize_transfers"
    THEN b - SumSeq([i \in 1..Len(last_call.result) |-> last_call.result[i].cost_change])
    ELSE b

\* remaining_budget = user_strategy.bank
StartingBudget(b) == b

\* optimize_transfers up to the sorted candidate list
OptimizeTransfers(b, ft, team, weeks, maxt, hits) ==
    /\ pc = "idle"
    /\ pc' = "select"
    /\ bank' = b
    /\ free_transfers' = ft
    /\ current_team' = team
    /\ weeks_ahead' = weeks
    /\ max_transfers' = maxt
    /\ allow_hits' = hits
    /\ transfer_candidates' =
          SortByValueRatio(GenerateCandidates(team, calculate_player_projections(weeks), b))
    /\ cursor' = 1
    /\ selected_transfers' = <<>>
    /\ used_players_out' = {}
    /\ used_players_in' = {}
    /\ remaining_budget' = StartingBudget(b)
    /\ recommendations' = <<>>
    /\ considered' = <<>>
    /\ UNCHANGED <<dvars, cvars, qvars, hvars, rvars>>

\* the loop ends: candidates exhausted
SelectExhausted ==
    /\ pc = "select"
    /\ ~HasCandidate
    /\ pc' = "convert"
    /\ UNCHANGED <<bank, free_transfers, current_team, weeks_ahead, max_transfers,
                   allow_hits, transfer_candidates, cursor, selected_transfers,
                   used_players_out, used_players_in, remaining_budget,
                   recommendations, considered>>
    /\ UNCHANGED <<dvars, cvars, qvars, hvars, rvars>>

\* the loop ends: break at max_transfers
SelectBreak ==
    /\ pc = "select"
    /\ HasCandidate
    /\ MaxReached
    /\ pc' = "convert"
    /\ UNCHANGED <<bank, free_transfers, current_team, weeks_ahead, max_transfers,
                   allow_hits, transfer_candidates, cursor, selected_transfers,
                   used_players_out, used_players_in, remaining_budget,
                   recommendations, considered>>
    /\ UNCHANGED <<dvars, cvars, qvars, hvars, rvars>>

\* continue: double-booked or over the remaining budget
SkipConstraint ==
    /\ pc = "select"
    /\ HasCandidate
    /\ ~MaxReached
    /\ ConstraintViolated(Candidate)
    /\ cursor' = cursor + 1
    /\ considered' = Logged(Candidate, "constraint")
    /\ UNCHANGED <<pc, bank, free_transfers, current_team, weeks_ahead, max_transfers,
                   allow_hits, transfer_candidates, selected_transfers,
                   used_players_out, used_players_in, remaining_budget,
                   recommendations>>
    /\ UNCHANGED <<dvars, cvars, qvars, hvars, rvars>>

\* continue: the hit is not worth it
SkipHit ==
    /\ pc = "select"
    /\ HasCandidate
    /\ ~MaxReached
    /\ ~ConstraintViolated(Candidate)
    /\ NeedsHit
    /\ HitRejected(Candidate)
    /\ cursor' = cursor + 1
    /\ considered' = Logged(Candidate, "hit")
    /\ UNCHANGED <<pc, bank, free_transfers, current_team, weeks_ahead, max_transfers,
                   allow_hits, transfer_candidates, selected_transfers,
                   used_players_out, used_players_in, remaining_budget,
                   recommendations>>
    /\ UNCHANGED <<dvars, cvars, qvars, hvars, rvars>>

\* the candidate is selected
Accept ==
    /\ pc = "select"
    /\ HasCandidate
    /\ ~MaxReached
    /\ ~ConstraintViolated(Candidate)
    /\ ~(NeedsHit /\ HitRejected(Candidate))
    /\ selected_transfers' = Append(selected_transfers, Candidate)
    /\ used_players_out' = used_players_out \cup {Candidate.out_id}
    /\ used_players_in' = used_players_in \cup {Candidate.in_id}
    /\ remaining_budget' = remaining_budget - Candidate.cost_change
    /\ cursor' = cursor + 1
    /\ considered' = Logged(Candidate, "accepted")
    /\ UNCHANGED <<pc, bank, free_transfers, current_team, weeks_ahead, max_transfers,
                   allow_hits, transfer_candidates, recommendations>>
    /\ UNCHANGED <<dvars, cvars, qvars, hvars, rvars>>

\* the number of gameweeks the reason text names
ReasonGameweeks == 6

TransferRecommendation(transfer, i) ==
    [player_out_id |-> transfer.out_id, player_in_id |-> transfer.in_id,
     cost_change |-> transfer.cost_change,
     points_potential |-> transfer.points_improvement,
     confidence |-> Min(transfer.points_improvement \div 10, 1000),
     reason_points |-> transfer.points_improvement,
     reason_gameweeks |-> ReasonGameweeks,
     priority |-> i]

\* "Convert to TransferRecommendation objects", and return
Convert ==
    /\ pc = "convert"
    /\ pc' = "done"
    /\ recommendations' =
          [i \in 1..Len(selected_transfers) |->
              TransferRecommendation(selected_transfers[i], i)]
    /\ UNCHANGED <<bank, free_transfers, current_team, weeks_ahead, max_transfers,
                   allow_hits, transfer_candidates, cursor, selected_transfers,
                   used_players_out, used_players_in, remaining_budget, considered>>
    /\ UNCHANGED <<dvars, cvars, qvars, hvars, rvars>>

\* the caller has the list; the call's arguments and locals are gone
Return ==
    /\ pc = "done"
    /\ pc' = "idle"
    /\ bank' = 0
    /\ free_transfers' = 0
    /\ current_team' = {}
    /\ weeks_ahead' = 1
    /\ max_transfers' = 0
    /\ allow_hits' = FALSE
    /\ transfer_candidates' = <<>>
    /\ cursor' = 1
    /\ selected_transfers' = <<>>
    /\ used_players_out' = {}
    /\ used_players_in' = {}
    /\ remaining_budget' = 0
    /\ recommendations' = <<>>
    /\ considered' = <<>>
    /\ UNCHANGED <<dvars, cvars, qvars, hvars, rvars>>

----------------------------------------------------------------------------
(* The transfer specification *)

\* no chip planning call is under way (the chip planner's variables at rest)
ChipIdle ==
    /\ chip_pc = "idle"
    /\ chips_remaining = <<>>
    /\ planned_chips = <<>>
    /\ fixture_analysis = <<>>
    /\ double_gameweeks = <<>>
    /\ blank_gameweeks = <<>>
    /\ strategies = <<>>

\* no query is under way (the readers' variables at rest)
QueryIdle ==
    /\ query_pc = "idle"
    /\ query_kind = "none"
    /\ query_player = 0
    /\ query_weeks = 0
    /\ difficulty_table = <<>>
    /\ player_difficulties = <<>>
    /\ predicted_points = 0
    /\ player_projections = <<>>

\* what the caller has of a finished call: the call, its arguments beyond the
\* snapshot, and the list it returned
CallRecord(call, weeks, maxt, hits, result) ==
    [call |-> call, weeks_ahead |-> weeks, max_transfers |-> maxt,
     allow_hits |-> hits, result |-> result]

\* the caller has no record of a finished call
NoRecord == last_call = CallRecord("none", 0, 0, FALSE, <<>>)

\* no request is under way
RequestIdle ==
    /\ request_pc = "idle"
    /\ attempt = 1
    /\ attempts_made = 0
    /\ last_exception = "none"
    /\ sleep_times = <<>>
    /\ request_result = "none"

\* the ids of the snapshot's players: four rows, so that two transfers with
\* different players out and in can be selected in one call
PlayerIds == 1..4

Snapshots ==
    { [i \in PlayerIds |-> WithId(rows[i], i)] : rows \in [PlayerIds -> PlayerCatalogue] }

\* The current team: the first k players of the snapshot.  Only the order of the
\* rows within the team and within the pool reaches the candidate list, and the
\* rows of a snapshot are drawn freely.
Rosters == { 1..k : k \in 0..Cardinality(PlayerIds) }

Init ==
    /\ players_df \in Snapshots
    /\ fixtures_df = TransferFixtures
    /\ current_gw = 10
    /\ pc = "idle"
    /\ bank = 0
    /\ free_transfers = 0
    /\ current_team = {}
    /\ weeks_ahead = 1
    /\ max_transfers = 0
    /\ allow_hits = FALSE
    /\ transfer_candidates = <<>>
    /\ cursor = 1
    /\ selected_transfers = <<>>
    /\ used_players_out = {}
    /\ used_players_in = {}
    /\ remaining_budget = 0
    /\ recommendations = <<>>
    /\ considered = <<>>
    /\ ChipIdle
    /\ QueryIdle
    /\ NoRecord
    /\ RequestIdle

Call ==
    \E b \in 0..MaxBank, ft \in 0..MaxFreeTransfers, team \in Rosters,
       weeks \in MinWeeks..MaxWeeks, maxt \in 0..MaxMaxTransfers, hits \in BOOLEAN :
        OptimizeTransfers(b, ft, team, weeks, maxt, hits)

Next ==
    \/ Call
    \/ SelectExhausted
    \/ SelectBreak
    \/ SkipConstraint
    \/ SkipHit
    \/ Accept
    \/ Convert
    \/ Return

Spec == Init /\ [][Next]_vars

----------------------------------------------------------------------------
(* Properties of the transfer selection *)

InCall == pc \in {"select", "convert", "done"}

RECURSIVE SumCost(_)
SumCost(transfers) ==
    IF transfers = <<>> THEN 0
    ELSE Head(transfers).cost_change + SumCost(Tail(transfers))

RecommendedCost == SumCost(recommendations)

\* the place of a candidate in the list as generated, before the sort
GenIndex(c) ==
    LET generated == GenerateCandidates(current_team,
                         calculate_player_projections(weeks_ahead), bank)
    IN  CHOOSE k \in 1..Len(generated) :
            generated[k].out_id = c.out_id /\ generated[k].in_id = c.in_id

Selected(c) == \E k \in 1..Len(selected_transfers) : selected_transfers[k] = c

\* C1: the remaining budget is never negative, at any point of the selection,
\* and the cost changes of the selected (and of the returned) transfers sum to
\* at most user_strategy.bank, cheaper-for-dearer swaps included.
BudgetInvariant ==
    InCall =>
        /\ remaining_budget >= 0
        /\ remaining_budget = bank - SumCost(selected_transfers)
        /\ SumCost(selected_transfers) <= bank
        /\ RecommendedCost <= bank

\* two transfers returned, one that frees money and one that costs money
BudgetWitness ==
    /\ pc = "done"
    /\ Len(recommendations) = 2
    /\ \E i, j \in 1..2 : /\ recommendations[i].cost_change < 0
                          /\ recommendations[j].cost_change > 0

\* C2: no player id is the outgoing player of two returned transfers and no
\* player id is the incoming player of two returned transfers.
NoDoubleBooking ==
    /\ \A i, j \in 1..Len(selected_transfers) :
          i # j => /\ selected_transfers[i].out_id # selected_transfers[j].out_id
                   /\ selected_transfers[i].in_id # selected_transfers[j].in_id
    /\ \A i, j \in 1..Len(recommendations) :
          i # j => /\ recommendations[i].player_out_id # recommendations[j].player_out_id
                   /\ recommendations[i].player_in_id # recommendations[j].player_in_id

\* two transfers returned after a candidate was skipped for a used player
NoDoubleBookingWitness ==
    /\ pc = "done"
    /\ Len(recommendations) = 2
    /\ \E k \in 1..Len(considered) :
          /\ considered[k].decision = "constraint"
          /\ \E i \in 1..2 :
                \/ recommendations[i].player_out_id = considered[k].cand.out_id
                \/ recommendations[i].player_in_id = considered[k].cand.in_id

\* the loop body decided candidate a before candidate b, with decision d
DecidedBefore(a, b, d) ==
    \E i, j \in 1..Len(considered) :
        /\ i < j
        /\ considered[i].cand = a
        /\ considered[j].cand = b
        /\ considered[i].decision = d

\* C3 as claimed: a candidate of strictly higher value_ratio than a selected one
\* is itself selected unless double-booking or the budget excluded it when it
\* was considered.
GreedyOnlyConstraints ==
    \A a, b \in {transfer_candidates[k] : k \in 1..Len(transfer_candidates)} :
        (Selected(b) /\ RatioGreater(a, b) /\ ~Selected(a))
            => DecidedBefore(a, b, "constraint")

\* C3 as amended: such a candidate was considered before the selected one and
\* excluded by double-booking, by the budget, or by the hit check (the free
\* transfers were used up and its gain was below 4 points).
GreedyOrder ==
    \A a, b \in {transfer_candidates[k] : k \in 1..Len(transfer_candidates)} :
        (Selected(b) /\ RatioGreater(a, b) /\ ~Selected(a))
            => \/ DecidedBefore(a, b, "constraint")
               \/ /\ DecidedBefore(a, b, "hit")
                  /\ allow_hits
                  /\ a.points_improvement < 4000

\* a higher-ratio candidate was passed over and a lower-ratio one selected
GreedyOrderWitness ==
    /\ pc = "done"
    /\ \E a, b \in {transfer_candidates[k] : k \in 1..Len(transfer_candidates)} :
          /\ Selected(b) /\ RatioGreater(a, b) /\ ~Selected(a)
          /\ DecidedBefore(a, b, "hit")

\* C4 as claimed: a candidate that needs a hit and passes the other checks is
\* selected exactly when hits are allowed and its gain is strictly above 4
\* points; a gain of exactly 4 points is rejected.
HitOnlyAboveThreshold ==
    \A k \in 1..Len(considered) :
        (considered[k].accepted_before >= free_transfers
           /\ considered[k].decision # "constraint")
        => (considered[k].decision = "accepted"
              <=> (allow_hits /\ considered[k].cand.points_improvement > 4000))

\* C5: at most max_transfers transfers are returned, and at most
\* min(max_transfers, free_transfers) when hits are not allowed.
TransferCountBound ==
    InCall =>
        /\ Len(selected_transfers) <= max_transfers
        /\ Len(recommendations) <= max_transfers
        /\ ~allow_hits =>
              /\ Len(selected_transfers) <= Min(max_transfers, free_transfers)
              /\ Len(recommendations) <= Min(max_transfers, free_transfers)

\* hits not allowed: the free transfer is returned and a further candidate,
\* within max_transfers, was turned down by the hit check
TransferCountWitness ==
    /\ pc = "done"
    /\ ~allow_hits
    /\ Len(recommendations) = free_transfers
    /\ free_transfers < max_transfers
    /\ \E k \in 1..Len(considered) : considered[k].decision = "hit"

PlayerRow(id) == players_df[id]

\* C6: every returned transfer takes out a player of current_team and brings in
\* a player outside it, of the same element_type, whose price is at most the
\* outgoing price plus the bank, and whose projection is strictly higher.
ValidPairs ==
    \A k \in 1..Len(recommendations) :
        LET r == recommendations[k]
            out == PlayerRow(r.player_out_id)
            in == PlayerRow(r.player_in_id)
            projections == calculate_player_projections(weeks_ahead)
        IN  /\ r.player_out_id \in current_team
            /\ r.player_in_id \notin current_team
            /\ in.element_type = out.element_type
            /\ Value(in) <= Value(out) + bank
            /\ projections[in.id] > projections[out.id]

\* a transfer is returned although the pool also holds an affordable player of
\* another position with a higher projection than a player of the team
ValidPairsWitness ==
    /\ pc = "done"
    /\ Len(recommendations) >= 1
    /\ \E o \in current_team, i \in PlayerIds \ current_team :
          LET projections == calculate_player_projections(weeks_ahead)
          IN  /\ PlayerRow(i).element_type # PlayerRow(o).element_type
              /\ Value(PlayerRow(i)) <= Value(PlayerRow(o)) + bank
              /\ projections[i] > projections[o]

\* no player of the team and player of the pool are of one element_type with
\* an affordable price difference and a higher projection for the pool's player
NoCandidatePair ==
    LET player_projections_now == calculate_player_projections(weeks_ahead)
    IN  \A o \in current_team, i \in PlayerIds \ current_team :
            ~ /\ PlayerRow(i).element_type = PlayerRow(o).element_type
              /\ Value(PlayerRow(i)) <= Value(PlayerRow(o)) + bank
              /\ player_projections_now[i] > player_projections_now[o]

\* C17: when the search finds no candidate (empty team or pool, no pair of one
\* element_type, every pair unaffordable or without a gain), and when every
\* candidate the loop looked at was passed over, optimize_transfers returns an
\* empty list
EmptyResult ==
    pc = "done" =>
        /\ NoCandidatePair => (transfer_candidates = <<>> /\ recommendations = <<>>)
        /\ (\A k \in 1..Len(considered) : considered[k].decision # "accepted")
              => recommendations = <<>>

\* a call with players in the team and in the pool, a horizon above zero, and
\* no candidate
EmptyResultWitness ==
    /\ pc = "done"
    /\ NoCandidatePair
    /\ current_team # {}
    /\ current_team # PlayerIds
    /\ weeks_ahead > 0
    /\ max_transfers > 0
    /\ recommendations = <<>>

\* C7: the sorted candidate list is descending in value_ratio and candidates of
\* equal value_ratio keep their generation order; the loop takes the candidates
\* in the order of the list.
StableDescendingOrder ==
    InCall =>
        /\ \A i, j \in 1..Len(transfer_candidates) :
              i < j =>
                /\ ~RatioGreater(transfer_candidates[j], transfer_candidates[i])
                /\ RatioEqual(transfer_candidates[i], transfer_candidates[j])
                      => GenIndex(transfer_candidates[i]) < GenIndex(transfer_candidates[j])
        /\ \A k \in 1..Len(considered) : considered[k].cand = transfer_candidates[k]

\* of two tied candidates the earlier generated one was selected, the later
\* one came after it
StableOrderWitness ==
    /\ pc = "done"
    /\ \E i, j \in 1..Len(considered) :
          /\ i < j
          /\ RatioEqual(considered[i].cand, considered[j].cand)
          /\ GenIndex(considered[i].cand) < GenIndex(considered[j].cand)
          /\ considered[i].decision = "accepted"

\* C28: the number of gameweeks named in the reason of every returned
\* recommendation is the weeks_ahead of the call
ReasonNamesHorizon ==
    pc = "done" =>
        \A k \in 1..Len(recommendations) :
            recommendations[k].reason_gameweeks = weeks_ahead

\* C8 as claimed: a call with weeks_ahead <= 0 never returns a list.
InvalidHorizonNeverReturns == ~(pc = "done" /\ weeks_ahead <= 0)

----------------------------------------------------------------------------
(* ChipPlanner: the fixture calendar of a season *)

\* the season's last gameweek (the literals 38 and 39 = 38 + 1 of the planner)
LastGameweek == 38

Gameweeks == 1..LastGameweek

\* ChipType
ChipTypes == {"wildcard", "bboost", "3xc", "freehit"}

\* A round of n fixtures among teams 1..20, every fixture rated home_d for the
\* home side and away_d for the away side, but the first `easy` fixtures rated
\* one less for the home side: fixtures 1..10 pair teams (1,2),
\* (3,4), ...; fixtures beyond the tenth pair (2,3), (4,5), ..., whose teams
\* then play twice in the round.
RoundFixture(gw, i, home_d, away_d) ==
    IF i <= 10 THEN Fixture(gw, 2 * i - 1, 2 * i, home_d, away_d)
    ELSE Fixture(gw, 2 * (i - 10), 2 * (i - 10) + 1, home_d, away_d)

Round(gw, shape) ==
    [i \in 1..shape.n |->
        RoundFixture(gw, i,
                     IF i <= shape.easy THEN shape.home_d - 1 ELSE shape.home_d,
                     shape.away_d)]

NormalRound == [n |-> 10, home_d |-> 3, away_d |-> 3, easy |-> 0]

\* a round of 8 fixtures of neutral rating
ShortRound == [n |-> 8, home_d |-> 3, away_d |-> 3, easy |-> 0]

\* a round of 4 fixtures, one of them easier for the home side
ThinEasyRound == [n |-> 4, home_d |-> 3, away_d |-> 3, easy |-> 1]

\* what a round that is not a normal one looks like: an easy full round, a
\* round with postponements, a blank round, a double round, a round of hardest
\* fixtures, a double round of harder fixtures
SpecialRounds ==
    { [n |-> 10, home_d |-> 2, away_d |-> 3, easy |-> 0],
      [n |-> 7, home_d |-> 3, away_d |-> 3, easy |-> 0],
      [n |-> 4, home_d |-> 3, away_d |-> 4, easy |-> 0],
      [n |-> 13, home_d |-> 2, away_d |-> 3, easy |-> 0],
      [n |-> 8, home_d |-> 5, away_d |-> 5, easy |-> 0],
      [n |-> 13, home_d |-> 3, away_d |-> 4, easy |-> 0] }

\* the gameweeks the special round of a calendar can fall on
SpecialGameweeks == {12, 18, 27, 28, 36}

\* the closing gameweeks of a season
RunIn == {35, 36, 37, 38}

\* the rounds a season of short closing rounds can end with
ClosingRounds == {ShortRound, ThinEasyRound}

\* gameweek -> shape of its round: normal rounds with at most one special round,
\* or normal rounds and a run-in of special rounds of one shape, or normal
\* rounds and a run-in of short rounds with a closing round
Calendars ==
    { [gw \in Gameweeks |-> NormalRound] }
    \cup { [gw \in Gameweeks |-> IF gw = g THEN r ELSE NormalRound] :
              g \in SpecialGameweeks, r \in SpecialRounds }
    \cup { [gw \in Gameweeks |-> IF gw \in RunIn THEN r ELSE NormalRound] :
              r \in SpecialRounds }
    \cup { [gw \in Gameweeks |-> IF gw = LastGameweek THEN r
                                  ELSE IF gw \in RunIn THEN ShortRound
                                  ELSE NormalRound] :
              r \in ClosingRounds }

RECURSIVE FixturesFrom(_, _)
FixturesFrom(calendar, gw) ==
    IF gw > LastGameweek THEN <<>>
    ELSE Round(gw, calendar[gw]) \o FixturesFrom(calendar, gw + 1)

\* the fixture rows of a calendar, in gameweek order
FixturesOf(calendar) == FixturesFrom(calendar, 1)

----------------------------------------------------------------------------
(* ChipPlanner._analyze_upcoming_fixtures *)

RECURSIVE CountTeam(_, _)
CountTeam(gw_fixtures, team) ==
    IF gw_fixtures = <<>> THEN 0
    ELSE (IF Head(gw_fixtures).team_h = team \/ Head(gw_fixtures).team_a = team
          THEN 1 ELSE 0) + CountTeam(Tail(gw_fixtures), team)

RECURSIVE SumDifficulties(_)
SumDifficulties(gw_fixtures) ==
    IF gw_fixtures = <<>> THEN 0
    ELSE Head(gw_fixtures).team_h_difficulty + Head(gw_fixtures).team_a_difficulty
            + SumDifficulties(Tail(gw_fixtures))

\* the analysis record of one gameweek; avg_difficulty in thousandths
AnalyzeGameweek(gw) ==
    LET InGw(fx) == fx.event = gw
        gw_fixtures == SelectSeq(fixtures_df, InGw)
        total_fixtures == Len(gw_fixtures)
        playing == {gw_fixtures[i].team_h : i \in 1..total_fixtures}
                      \cup {gw_fixtures[i].team_a : i \in 1..total_fixtures}
    IN  [total_fixtures |-> total_fixtures,
         avg_difficulty |->
            IF total_fixtures > 0
            THEN (1000 * SumDifficulties(gw_fixtures)) \div (2 * total_fixtures)
            ELSE 3000,
         is_double_gw |-> total_fixtures > 10,
         is_blank_gw |-> total_fixtures < 5,
         team_fixtures |-> [t \in playing |-> CountTeam(gw_fixtures, t)]]

\* for gw in range(gw, last + 1): analysis[gw] = {...}
RECURSIVE AnalysisFrom(_, _)
AnalysisFrom(gw, last) ==
    IF gw > last THEN <<>>
    ELSE (gw :> AnalyzeGameweek(gw)) @@ AnalysisFrom(gw + 1, last)

\* for gw in range(current_gw, current_gw + weeks)
analyze_upcoming_fixtures(weeks) ==
    AnalysisFrom(current_gw, current_gw + weeks - 1)

----------------------------------------------------------------------------
(* ChipPlanner._identify_double_gameweeks, _identify_blank_gameweeks *)

SetMin(S) == CHOOSE x \in S : \A y \in S : x <= y

\* sorted(...) of a list without repetitions
RECURSIVE SortedSeq(_)
SortedSeq(S) ==
    IF S = {} THEN <<>>
    ELSE <<SetMin(S)>> \o SortedSeq(S \ {SetMin(S)})

\* likely_periods = [range(25, 30), range(36, 38)], in the order the loops visit
LikelyPeriods == <<25, 26, 27, 28, 29, 36, 37>>

\* typical_blank_periods
TypicalBlankPeriods == <<18, 28, 29>>

\* "More accurate double gameweek detection"
CountedDouble(analysis, gw) ==
    analysis[gw].total_fixtures > 10 \/ (analysis[gw].total_fixtures > 8 /\ gw > 25)

\* the loop over the likely periods: a gameweek of a likely period with fewer
\* than 8 fixtures marks the first later gameweek (within 4) not yet marked
RECURSIVE MarkMakeups(_, _, _, _)
MarkMakeups(period, double_gws, analysis, cur) ==
    IF period = <<>> THEN double_gws
    ELSE LET gw == Head(period)
             makeups == {m \in (gw + 1)..(Min(gw + 5, LastGameweek + 1) - 1) :
                            m \in DOMAIN analysis /\ m \notin double_gws}
         IN  IF /\ gw >= cur
                /\ gw \notin double_gws
                /\ gw \in DOMAIN analysis
                /\ analysis[gw].total_fixtures < 8
                /\ makeups # {}
             THEN MarkMakeups(Tail(period), double_gws \cup {SetMin(makeups)}, analysis, cur)
             ELSE MarkMakeups(Tail(period), double_gws, analysis, cur)

identify_double_gameweeks(analysis, cur) ==
    LET counted == {gw \in DOMAIN analysis : CountedDouble(analysis, gw)}
    IN  SortedSeq(MarkMakeups(LikelyPeriods, counted, analysis, cur))

RECURSIVE MarkTypicalBlanks(_, _, _, _)
MarkTypicalBlanks(period, blank_gws, analysis, cur) ==
    IF period = <<>> THEN blank_gws
    ELSE LET gw == Head(period)
         IN  IF /\ gw >= cur
                /\ gw \notin blank_gws
                /\ gw \in DOMAIN analysis
                /\ analysis[gw].total_fixtures < 8
             THEN MarkTypicalBlanks(Tail(period), blank_gws \cup {gw}, analysis, cur)
             ELSE MarkTypicalBlanks(Tail(period), blank_gws, analysis, cur)

identify_blank_gameweeks(analysis, cur) ==
    LET counted == {gw \in DOMAIN analysis : analysis[gw].total_fixtures < 5}
    IN  SortedSeq(MarkTypicalBlanks(TypicalBlankPeriods, counted, analysis, cur))

----------------------------------------------------------------------------
(* ChipPlanner: the planners of the four chip types *)

\* a gameweek that stands for None
NoGameweek == 0

\* the score of the gameweeks after gw ("Next 5 weeks"), in thousandths
RECURSIVE WildcardScore(_, _, _)
WildcardScore(analysis, future_gw, last) ==
    IF future_gw > last THEN 0
    ELSE (IF future_gw \in DOMAIN analysis
          THEN (5000 - analysis[future_gw].avg_difficulty) * 2
                  + (IF analysis[future_gw].is_double_gw THEN 2000 ELSE 0)
          ELSE 0)
         + WildcardScore(analysis, future_gw + 1, last)

\* a scan that takes the last gameweek with a score above 0
RECURSIVE WildcardScanLast(_, _, _, _)
WildcardScanLast(analysis, gw, last, best) ==
    IF gw > last THEN best
    ELSE LET score == WildcardScore(analysis, gw + 1, Min(gw + 6, LastGameweek + 1) - 1)
         IN  IF gw \in DOMAIN analysis /\ score > 0
             THEN WildcardScanLast(analysis, gw + 1, last, <<gw, score>>)
             ELSE WildcardScanLast(analysis, gw + 1, last, best)

\* the loop of _find_optimal_wildcard_timing from gw on: <<best_gw, best_score>>
RECURSIVE WildcardScan(_, _, _, _)
WildcardScan(analysis, gw, last, best) ==
    IF gw > last THEN best
    ELSE LET score == WildcardScore(analysis, gw + 1, Min(gw + 6, LastGameweek + 1) - 1)
         IN  IF gw \in DOMAIN analysis /\ score > best[2]
             THEN WildcardScan(analysis, gw + 1, last, <<gw, score>>)
             ELSE WildcardScan(analysis, gw + 1, last, best)

\* a scan of every later gameweek, whatever the window
find_wildcard_timing_anywhere(analysis, cur, min_gw, max_gw) ==
    WildcardScan(analysis, cur + 1, LastGameweek, <<min_gw, 0>>)[1]

find_optimal_wildcard_timing(analysis, cur, min_gw, max_gw) ==
    WildcardScan(analysis, Max(cur + 1, min_gw), Min(max_gw + 1, LastGameweek + 1) - 1,
                 <<min_gw, 0>>)[1]

\* a planner that plans both wildcards, whatever the count
plan_both_wildcards(analysis, cur, count) ==
    LET wc1 == find_optimal_wildcard_timing(analysis, cur, Max(cur + 1, 8), 15)
        wc2 == find_optimal_wildcard_timing(analysis, Max(wc1 + 8, 25), 25, 35)
    IN  <<wc1, wc2>>

plan_multiple_wildcards(analysis, cur, count) ==
    LET wc1 == find_optimal_wildcard_timing(analysis, cur, Max(cur + 1, 8), 15)
        wc2 == find_optimal_wildcard_timing(analysis, Max(wc1 + 8, 25), 25, 35)
    IN  (IF count >= 1 THEN <<wc1>> ELSE <<>>) \o (IF count >= 2 THEN <<wc2>> ELSE <<>>)

\* scored.sort(key = score, reverse = True): descending, and stable
RECURSIVE InsertByScore(_, _)
InsertByScore(sorted, x) ==
    IF sorted = <<>> THEN <<x>>
    ELSE IF x[2] > Head(sorted)[2] THEN <<x>> \o sorted
         ELSE <<Head(sorted)>> \o InsertByScore(Tail(sorted), x)

RECURSIVE SortByScore(_, _)
SortByScore(sorted, rest) ==
    IF rest = <<>> THEN sorted
    ELSE SortByScore(InsertByScore(sorted, Head(rest)), Tail(rest))

SeqToSet(seq) == {seq[i] : i \in 1..Len(seq)}

\* the first gameweek of a scored list only
FirstGameweekOnly(scored, n) == [i \in 1..Min(n, 1) |-> scored[i][1]]

\* the first n gameweeks of a scored list
FirstGameweeks(scored, n) == [i \in 1..n |-> scored[i][1]]

\* the loop of _find_best_regular_gameweek from gw on: <<best_gw, best_score>>
RECURSIVE RegularScan(_, _, _, _)
RegularScan(analysis, gw, exclude, best) ==
    IF gw > LastGameweek THEN best
    ELSE LET score == (5000 - analysis[gw].avg_difficulty) * 2
                         + analysis[gw].total_fixtures * 100
         IN  IF gw \notin exclude /\ gw \in DOMAIN analysis /\ score > best[2]
             THEN RegularScan(analysis, gw + 1, exclude, <<gw, score>>)
             ELSE RegularScan(analysis, gw + 1, exclude, best)

find_best_regular_gameweek(analysis, cur, exclude) ==
    RegularScan(analysis, cur + 1, exclude, <<NoGameweek, 0>>)[1]

\* the loop of _find_best_captain_gameweek from gw on
RECURSIVE CaptainScan(_, _, _, _)
CaptainScan(analysis, gw, exclude, best) ==
    IF gw > LastGameweek THEN best
    ELSE LET score == (5000 - analysis[gw].avg_difficulty) * 4
         IN  IF gw \notin exclude /\ gw \in DOMAIN analysis /\ score > best[2]
             THEN CaptainScan(analysis, gw + 1, exclude, <<gw, score>>)
             ELSE CaptainScan(analysis, gw + 1, exclude, best)

find_best_captain_gameweek(analysis, cur, exclude) ==
    CaptainScan(analysis, cur + 1, exclude, <<NoGameweek, 0>>)[1]

\* while len(bench_boosts) < count: add the best regular gameweek, if there is one
RECURSIVE FillRegular(_, _, _, _)
FillRegular(chosen, analysis, cur, count) ==
    IF Len(chosen) >= count THEN chosen
    ELSE LET best_gw == find_best_regular_gameweek(analysis, cur, SeqToSet(chosen))
         IN  IF best_gw # NoGameweek
             THEN FillRegular(Append(chosen, best_gw), analysis, cur, count)
             ELSE chosen

RECURSIVE FillCaptain(_, _, _, _)
FillCaptain(chosen, analysis, cur, count) ==
    IF Len(chosen) >= count THEN chosen
    ELSE LET best_gw == find_best_captain_gameweek(analysis, cur, SeqToSet(chosen))
         IN  IF best_gw # NoGameweek
             THEN FillCaptain(Append(chosen, best_gw), analysis, cur, count)
             ELSE chosen

\* the double gameweeks after cur with the bench boost score
BenchBoostScored(double_gws, analysis, cur) ==
    LET Future(gw) == gw >= cur + 1
        future == SelectSeq(double_gws, Future)
    IN  [i \in 1..Len(future) |->
            <<future[i], (5000 - analysis[future[i]].avg_difficulty) * 2
                            + (IF future[i] > cur + 3 THEN 1000 ELSE 0)>>]

plan_multiple_bench_boosts(double_gws, analysis, cur, count) ==
    LET scored_dgws == SortByScore(<<>>, BenchBoostScored(double_gws, analysis, cur))
        from_doubles == FirstGameweeks(scored_dgws, Min(count, Len(scored_dgws)))
    IN  SortedSeq(SeqToSet(FillRegular(from_doubles, analysis, cur, count)))

\* the double gameweeks after cur with the triple captain score
TripleCaptainScored(double_gws, analysis, cur) ==
    LET Future(gw) == gw >= cur + 1
        future == SelectSeq(double_gws, Future)
    IN  [i \in 1..Len(future) |->
            <<future[i], (5000 - analysis[future[i]].avg_difficulty) * 3
                            + (IF future[i] <= cur + 10 THEN 2000 ELSE 0)>>]

plan_multiple_triple_captains(double_gws, analysis, cur, count) ==
    LET scored_dgws == SortByScore(<<>>, TripleCaptainScored(double_gws, analysis, cur))
        from_doubles == FirstGameweeks(scored_dgws, Min(count, Len(scored_dgws)))
    IN  SortedSeq(SeqToSet(FillCaptain(from_doubles, analysis, cur, count)))

\* "First priority: blank gameweeks"
RECURSIVE TakeBlanks(_, _, _, _)
TakeBlanks(blank_gws, free_hits, cur, count) ==
    IF blank_gws = <<>> THEN free_hits
    ELSE IF Head(blank_gws) >= cur + 1 /\ Len(free_hits) < count
         THEN TakeBlanks(Tail(blank_gws), Append(free_hits, Head(blank_gws)), cur, count)
         ELSE TakeBlanks(Tail(blank_gws), free_hits, cur, count)

\* the teams that play more than once in gw
GoodOpportunities(analysis, gw) ==
    Cardinality({t \in DOMAIN analysis[gw].team_fixtures :
                    analysis[gw].team_fixtures[t] > 1})

\* "Second priority": the loop over range(current_gw + 1, 39) from gw on
RECURSIVE TakeOpportunities(_, _, _, _)
TakeOpportunities(gw, free_hits, analysis, count) ==
    IF gw > LastGameweek THEN free_hits
    ELSE IF /\ gw \notin SeqToSet(free_hits)
            /\ gw \in DOMAIN analysis
            /\ GoodOpportunities(analysis, gw) >= 6
            /\ analysis[gw].avg_difficulty < 3000
         THEN IF Len(free_hits) + 1 >= count
              THEN Append(free_hits, gw)
              ELSE TakeOpportunities(gw + 1, Append(free_hits, gw), analysis, count)
         ELSE TakeOpportunities(gw + 1, free_hits, analysis, count)

plan_multiple_free_hits(blank_gws, analysis, cur, count) ==
    LET from_blanks == TakeBlanks(blank_gws, <<>>, cur, count)
    IN  SortedSeq(SeqToSet(
            IF Len(from_blanks) < count
            THEN TakeOpportunities(cur + 1, from_blanks, analysis, count)
            ELSE from_blanks))

----------------------------------------------------------------------------
(* ChipPlanner.create_chip_strategy *)

\* user_strategy.chips_remaining is a dict ChipType -> count (app.py), or an
\* old-style list of chip types (models.UserStrategy, the module's own test)
DictOf(counts) == [form |-> "dict", counts |-> counts, chips |-> <<>>]

ListOf(chips) == [form |-> "list", counts |-> <<>>, chips |-> chips]

\* the count that a chip type of an old-style list stands for
ListedCount == 2

\* chips_remaining.get(chip_type, 0), and the fallback on AttributeError
ChipsGet(remaining, chip_type) ==
    IF remaining.form = "dict"
    THEN IF chip_type \in DOMAIN remaining.counts
         THEN remaining.counts[chip_type] ELSE 0
    ELSE IF chip_type \in SeqToSet(remaining.chips) THEN ListedCount ELSE 0

\* models.ChipStrategy
ChipStrategy(chip_type, planned_gameweek, priority, reason) ==
    [chip_type |-> chip_type, planned_gameweek |-> planned_gameweek,
     priority |-> priority, reason |-> reason, locked |-> FALSE]

\* for i, gw in enumerate(plans): the first plan has priority first, the others
\* priority others
StrategiesOf(chip_type, plans, first, others, first_reason, other_reason) ==
    [i \in 1..Len(plans) |->
        ChipStrategy(chip_type, plans[i],
                     IF i = 1 THEN first ELSE others,
                     IF i = 1 THEN first_reason ELSE other_reason)]

\* strategies.sort(key = priority): ascending, and stable
RECURSIVE InsertByPriority(_, _)
InsertByPriority(sorted, x) ==
    IF sorted = <<>> THEN <<x>>
    ELSE IF x.priority < Head(sorted).priority THEN <<x>> \o sorted
         ELSE <<Head(sorted)>> \o InsertByPriority(Tail(sorted), x)

\* the list as the planners appended to it
KeepAppendOrder(sorted, rest) == sorted \o rest

RECURSIVE SortByPriority(_, _)
SortByPriority(sorted, rest) ==
    IF rest = <<>> THEN sorted
    ELSE SortByPriority(InsertByPriority(sorted, Head(rest)), Tail(rest))

create_chip_strategy(user_strategy, analysis, double_gws, blank_gws, cur) ==
    LET wildcards_remaining == ChipsGet(user_strategy.chips_remaining, "wildcard")
        bb_remaining == ChipsGet(user_strategy.chips_remaining, "bboost")
        tc_remaining == ChipsGet(user_strategy.chips_remaining, "3xc")
        fh_remaining == ChipsGet(user_strategy.chips_remaining, "freehit")
        wc == IF wildcards_remaining > 0
              THEN StrategiesOf("wildcard",
                       plan_multiple_wildcards(analysis, cur, wildcards_remaining),
                       1, 5,
                       "Optimal team restructuring before good fixture run",
                       "Late season squad overhaul")
              ELSE <<>>
        bb == IF bb_remaining > 0
              THEN StrategiesOf("bboost",
                       plan_multiple_bench_boosts(double_gws, analysis, cur, bb_remaining),
                       2, 6,
                       "Prime double gameweek with full bench participation",
                       "Secondary double gameweek opportunity")
              ELSE <<>>
        tc == IF tc_remaining > 0
              THEN StrategiesOf("3xc",
                       plan_multiple_triple_captains(double_gws, analysis, cur, tc_remaining),
                       3, 7,
                       "Premium captain pick in ideal double gameweek",
                       "Secondary captain opportunity")
              ELSE <<>>
        fh == IF fh_remaining > 0
              THEN StrategiesOf("freehit",
                       plan_multiple_free_hits(blank_gws, analysis, cur, fh_remaining),
                       4, 8,
                       "Critical blank gameweek navigation",
                       "Secondary blank gameweek or fixture exploit")
              ELSE <<>>
    IN  SortByPriority(<<>>, wc \o bb \o tc \o fh)

----------------------------------------------------------------------------
(* The arguments of create_chip_strategy *)

\* a chip type has 0..MaxChips uses left
MaxChips == 2

\* an old-style list has at most MaxListed entries
MaxListed == 2

\* the current gameweeks of the model: before, in and after the windows of the
\* wildcards, the likely double and the typical blank periods, and the last one
CurrentGameweeks == {1, 5, 9, 17, 24, 27, 33, 38}

\* the gameweeks of a plan the user made earlier
PlannedGameweeks == {8, 25, 28}

RemainingDicts ==
    UNION { [present -> 0..MaxChips] : present \in SUBSET ChipTypes }

RemainingLists ==
    UNION { [1..n -> ChipTypes] : n \in 0..MaxListed }

\* a plan the user made earlier, locked or not
PlannedChip(chip_type, gw, locked) ==
    [chip_type |-> chip_type, planned_gameweek |-> gw, priority |-> 1,
     reason |-> "planned by the user", locked |-> locked]

\* models.UserStrategy, the two fields the planner is handed: every form of
\* chips_remaining without earlier plans, and one earlier plan for a user who
\* has every chip left
UserStrategies ==
    { [chips_remaining |-> DictOf(counts), planned_chips |-> <<>>] :
          counts \in RemainingDicts }
    \cup { [chips_remaining |-> ListOf(chips), planned_chips |-> <<>>] :
              chips \in RemainingLists }
    \cup { [chips_remaining |-> DictOf([c \in ChipTypes |-> MaxChips]),
            planned_chips |-> <<PlannedChip(t, g, l)>>] :
              t \in ChipTypes, g \in PlannedGameweeks, l \in BOOLEAN }

----------------------------------------------------------------------------
(* The steps of the chip planner *)

\* a planner that stores its list as the user's plans
PlanAndBookmarkChips(user_strategy, analysis, double_gws, blank_gws) ==
    /\ chips_remaining' = user_strategy.chips_remaining
    /\ planned_chips' = create_chip_strategy(user_strategy, analysis,
                                             double_gws, blank_gws, current_gw)
    /\ fixture_analysis' = analysis
    /\ double_gameweeks' = double_gws
    /\ blank_gameweeks' = blank_gws
    /\ strategies' = create_chip_strategy(user_strategy, analysis,
                                          double_gws, blank_gws, current_gw)

\* lines 377-453 for an analysis that lines 367-375 made
PlanChips(user_strategy, analysis, double_gws, blank_gws) ==
    /\ chips_remaining' = user_strategy.chips_remaining
    /\ planned_chips' = user_strategy.planned_chips
    /\ fixture_analysis' = analysis
    /\ double_gameweeks' = double_gws
    /\ blank_gameweeks' = blank_gws
    /\ strategies' = create_chip_strategy(user_strategy, analysis,
                                          double_gws, blank_gws, current_gw)

\* one call of create_chip_strategy. The analysis reads the fixtures and the
\* current gameweek only, so it is the same whatever the argument.
CreateChipStrategy ==
    /\ chip_pc = "idle"
    /\ \E analysis \in {analyze_upcoming_fixtures(LastGameweek - current_gw + 1)} :
          \E double_gws \in {identify_double_gameweeks(analysis, current_gw)},
             blank_gws \in {identify_blank_gameweeks(analysis, current_gw)},
             user_strategy \in UserStrategies :
                PlanChips(user_strategy, analysis, double_gws, blank_gws)
    /\ chip_pc' = "done"
    /\ UNCHANGED <<dvars, tvars, qvars, hvars, rvars>>

\* the caller has the list; the planner keeps nothing of the call
ChipReturn ==
    /\ chip_pc = "done"
    /\ chip_pc' = "idle"
    /\ chips_remaining' = <<>>
    /\ planned_chips' = <<>>
    /\ fixture_analysis' = <<>>
    /\ double_gameweeks' = <<>>
    /\ blank_gameweeks' = <<>>
    /\ strategies' = <<>>
    /\ UNCHANGED <<dvars, tvars, qvars, hvars, rvars>>

----------------------------------------------------------------------------
(* The chip specification *)

\* no transfer optimisation is under way (the optimiser's variables at rest)
TransferIdle ==
    /\ pc = "idle"
    /\ bank = 0
    /\ free_transfers = 0
    /\ current_team = {}
    /\ weeks_ahead = 1
    /\ max_transfers = 0
    /\ allow_hits = FALSE
    /\ transfer_candidates = <<>>
    /\ cursor = 1
    /\ selected_transfers = <<>>
    /\ used_players_out = {}
    /\ used_players_in = {}
    /\ remaining_budget = 0
    /\ recommendations = <<>>
    /\ considered = <<>>

ChipInit ==
    /\ players_df = <<>>
    /\ \E calendar \in Calendars : fixtures_df = FixturesOf(calendar)
    /\ current_gw \in CurrentGameweeks
    /\ TransferIdle
    /\ ChipIdle
    /\ QueryIdle
    /\ NoRecord
    /\ RequestIdle

ChipNext == CreateChipStrategy \/ ChipReturn

ChipSpec == ChipInit /\ [][ChipNext]_vars

----------------------------------------------------------------------------
(* Properties of the chip strategy *)

\* the number of the returned assignments of chip_type
Assigned(chip_type) ==
    Cardinality({i \in 1..Len(strategies) : strategies[i].chip_type = chip_type})

\* how often an old-style list names chip_type
Occurrences(chips, chip_type) ==
    Cardinality({i \in 1..Len(chips) : chips[i] = chip_type})

\* the remaining count of chip_type in chips_remaining: the dict's entry (0 if
\* there is none), the number of entries of the list
RemainingCount(chip_type) ==
    IF chips_remaining.form = "dict"
    THEN IF chip_type \in DOMAIN chips_remaining.counts
         THEN chips_remaining.counts[chip_type] ELSE 0
    ELSE Occurrences(chips_remaining.chips, chip_type)

\* C9, as claimed: the returned list holds at most as many assignments of a chip
\* type as the type's remaining count in chips_remaining
AtMostRemainingCount ==
    chip_pc = "done" =>
        \A t \in ChipTypes : Assigned(t) <= RemainingCount(t)

\* C9, amended: the returned list holds at most as many assignments of a chip
\* type as the dict's count of the type (none for a count of 0 or a type the
\* dict lacks); for an old-style list, at most two assignments of a type the
\* list names, however often, and none of a type it does not name
AtMostAllotment ==
    chip_pc = "done" =>
        \A t \in ChipTypes :
            Assigned(t) <= IF chips_remaining.form = "dict"
                           THEN RemainingCount(t)
                           ELSE IF RemainingCount(t) > 0 THEN ListedCount ELSE 0

\* a call for a dict with a type of count 0, a type that is absent and a type of
\* count 1 that got its one assignment, next to a type that got two
AtMostAllotmentWitness ==
    /\ chip_pc = "done"
    /\ chips_remaining.form = "dict"
    /\ DOMAIN chips_remaining.counts = ChipTypes \ {"freehit"}
    /\ chips_remaining.counts["bboost"] = 0
    /\ chips_remaining.counts["wildcard"] = 1
    /\ chips_remaining.counts["3xc"] = 2
    /\ Assigned("bboost") = 0
    /\ Assigned("freehit") = 0
    /\ Assigned("wildcard") = 1
    /\ Assigned("3xc") = 2

\* C10: no returned assignment has the chip type and the gameweek of a locked
\* plan of planned_chips
LockedCyclesExcluded ==
    chip_pc = "done" =>
        \A i \in 1..Len(planned_chips), j \in 1..Len(strategies) :
            planned_chips[i].locked =>
                ~ /\ strategies[j].chip_type = planned_chips[i].chip_type
                  /\ strategies[j].planned_gameweek = planned_chips[i].planned_gameweek

\* the gameweeks of the returned assignments of chip_type, in the list's order
AssignedGameweeks(chip_type) ==
    LET OfType(cs) == cs.chip_type = chip_type
        of_type == SelectSeq(strategies, OfType)
    IN  [i \in 1..Len(of_type) |-> of_type[i].planned_gameweek]

\* two wildcards are left: a count of 2, or an old-style list that names the chip
TwoWildcardsLeft ==
    IF chips_remaining.form = "dict"
    THEN RemainingCount("wildcard") = 2
    ELSE RemainingCount("wildcard") > 0

\* C11: with two wildcards left and a current gameweek of 7 or less, the first
\* wildcard assignment is a gameweek in 8..15, the second a gameweek in 25..35,
\* and the two differ
WildcardWindows ==
    (chip_pc = "done" /\ current_gw <= 7 /\ TwoWildcardsLeft) =>
        LET wc == AssignedGameweeks("wildcard")
        IN  /\ Len(wc) = 2
            /\ wc[1] \in 8..15
            /\ wc[2] \in 25..35
            /\ wc[1] # wc[2]

\* a call at gameweek 5 whose first wildcard is not the start of its window
WildcardWindowsWitness ==
    /\ chip_pc = "done"
    /\ current_gw = 5
    /\ TwoWildcardsLeft
    /\ AssignedGameweeks("wildcard") = <<12, 26>>

\* the rank of a chip type: wildcard, bench boost, triple captain, free hit
TypeRank(chip_type) ==
    CASE chip_type = "wildcard" -> 1
      [] chip_type = "bboost" -> 2
      [] chip_type = "3xc" -> 3
      [] chip_type = "freehit" -> 4

\* strategies[i] is the first assignment of its chip type in the list
FirstOfType(i) ==
    \A k \in 1..(i - 1) : strategies[k].chip_type # strategies[i].chip_type

\* C12, as claimed: the returned list is ordered by chip type, no assignment of
\* a lower-ranked type before an assignment of a higher-ranked type
OrderedByChipType ==
    chip_pc = "done" =>
        \A i, j \in 1..Len(strategies) :
            i < j => TypeRank(strategies[i].chip_type) <= TypeRank(strategies[j].chip_type)

\* C12, amended: the returned list is in ascending order of priority, where the
\* first assignment of a chip type has the rank of its type as priority (1..4)
\* and every later assignment of the type that rank plus 4: the first
\* assignments of all types in rank order, then the later ones in rank order
OrderedByPriority ==
    chip_pc = "done" =>
        /\ \A i, j \in 1..Len(strategies) :
              i < j => strategies[i].priority <= strategies[j].priority
        /\ \A i \in 1..Len(strategies) :
              strategies[i].priority =
                  TypeRank(strategies[i].chip_type) + (IF FirstOfType(i) THEN 0 ELSE 4)

\* a returned list with the first free hit before the second wildcard
OrderedByPriorityWitness ==
    /\ chip_pc = "done"
    /\ \E i, j \in 1..Len(strategies) :
          /\ i < j
          /\ strategies[i].chip_type = "freehit"
          /\ strategies[j].chip_type = "wildcard"
          /\ ~FirstOfType(j)

----------------------------------------------------------------------------
(* The readers of the difficulty table:                                    *)
(* TransferOptimizer._get_player_fixture_difficulty,                       *)
(* AnalysisEngine.predict_player_points                                    *)

\* the entry of one team in the table of get_team_difficulty; avg_difficulty
\* in thousandths
TeamDifficultyEntry(team_difficulties) ==
    [difficulties |-> team_difficulties,
     avg_difficulty |->
        IF team_difficulties # <<>>
        THEN (1000 * SumSeq(team_difficulties)) \div Len(team_difficulties)
        ELSE 5000,
     num_fixtures |-> Len(team_difficulties)]

\* api.get_team_difficulty(), every field of it
TeamDifficultyTable ==
    LET listed == get_team_difficulty
    IN  [t \in Teams |-> TeamDifficultyEntry(listed[t])]

\* self.players_df[self.players_df['id'] == player_id].iloc[0]
PlayerById(player_id) ==
    players_df[CHOOSE i \in 1..Len(players_df) : players_df[i].id = player_id]

get_player_fixture_difficulty(player_id, weeks) ==
    LET team_id == PlayerById(player_id).team
        team_difficulty == TeamDifficultyTable
    IN  IF team_id \in DOMAIN team_difficulty
        THEN PySlicePrefix(team_difficulty[team_id].difficulties, weeks)
        ELSE [i \in 1..weeks |-> 3]

\* base_points * difficulty_multiplier * form_multiplier, in thousandths, with
\* the weights of an engine without learning: 0.15 * 2 and 0.30 * 0.2
PredictedProduct(player_id, gameweeks) ==
    LET player == PlayerById(player_id)
        team_difficulty == TeamDifficultyTable
        known == player.team \in DOMAIN team_difficulty
        avg_difficulty ==
            IF known THEN team_difficulty[player.team].avg_difficulty ELSE 3000
        num_fixtures ==
            IF known THEN Min(team_difficulty[player.team].num_fixtures, gameweeks)
            ELSE gameweeks
        base_points == PointsPerGame(player) * num_fixtures
        difficulty_multiplier == 1000 + ((3000 - avg_difficulty) * 3) \div 10
        form_multiplier == 1000 + ((player.form10 * 100 - 3000) * 6) \div 100
    IN  (((base_points * difficulty_multiplier) \div 1000) * form_multiplier) \div 1000

\* a prediction that is not floored
predict_player_points_unfloored(player_id, gameweeks) ==
    PredictedProduct(player_id, gameweeks)

predict_player_points(player_id, gameweeks) ==
    Max(0, PredictedProduct(player_id, gameweeks))

GetPlayerFixtureDifficulty(player_id, weeks) ==
    /\ query_pc = "idle"
    /\ query_pc' = "done"
    /\ query_kind' = "difficulty"
    /\ query_player' = player_id
    /\ query_weeks' = weeks
    /\ difficulty_table' = TeamDifficultyTable
    /\ player_difficulties' = get_player_fixture_difficulty(player_id, weeks)
    /\ UNCHANGED <<predicted_points, player_projections>>
    /\ UNCHANGED <<dvars, tvars, cvars, hvars, rvars>>

PredictPlayerPoints(player_id, gameweeks) ==
    /\ query_pc = "idle"
    /\ query_pc' = "done"
    /\ query_kind' = "predict"
    /\ query_player' = player_id
    /\ query_weeks' = gameweeks
    /\ difficulty_table' = TeamDifficultyTable
    /\ predicted_points' = predict_player_points(player_id, gameweeks)
    /\ UNCHANGED <<player_difficulties, player_projections>>
    /\ UNCHANGED <<dvars, tvars, cvars, hvars, rvars>>

CalculatePlayerProjections(weeks) ==
    /\ query_pc = "idle"
    /\ query_pc' = "done"
    /\ query_kind' = "projections"
    /\ query_weeks' = weeks
    /\ difficulty_table' = TeamDifficultyTable
    /\ player_projections' = calculate_player_projections(weeks)
    /\ UNCHANGED <<query_player, player_difficulties, predicted_points>>
    /\ UNCHANGED <<dvars, tvars, cvars, hvars, rvars>>

\* the caller has the answer
QueryReturn ==
    /\ query_pc = "done"
    /\ query_pc' = "idle"
    /\ query_kind' = "none"
    /\ query_player' = 0
    /\ query_weeks' = 0
    /\ difficulty_table' = <<>>
    /\ player_difficulties' = <<>>
    /\ predicted_points' = 0
    /\ player_projections' = <<>>
    /\ UNCHANGED <<dvars, tvars, cvars, hvars, rvars>>

----------------------------------------------------------------------------
(* The query specification *)

\* the queries ask for 1..MaxHorizon gameweeks
MaxHorizon == 6

\* the players of the queries: a defender of team 1, a midfielder of team 2, a
\* forward of team 1 whose points and form are below zero after a sending-off,
\* a defender whose team the table of teams does not list, and a forward of
\* team 2 with 25 goals
QueryPlayers ==
    << WithId([element_type |-> 2, team |-> 1, now_cost |-> 51, form10 |-> 50,
               total_points |-> 50, starts |-> 10, minutes |-> 900, bonus |-> 0,
               clean_sheets |-> 0, goals_scored |-> 0, assists |-> 0, ict10 |-> 0], 1),
       WithId([element_type |-> 3, team |-> 2, now_cost |-> 50, form10 |-> 60,
               total_points |-> 66, starts |-> 11, minutes |-> 800, bonus |-> 6,
               clean_sheets |-> 2, goals_scored |-> 3, assists |-> 2, ict10 |-> 400], 2),
       WithId([element_type |-> 4, team |-> 1, now_cost |-> 45, form10 |-> 0 - 10,
               total_points |-> 0 - 2, starts |-> 1, minutes |-> 30, bonus |-> 0,
               clean_sheets |-> 0, goals_scored |-> 0, assists |-> 0, ict10 |-> 0], 3),
       WithId([element_type |-> 2, team |-> 3, now_cost |-> 40, form10 |-> 30,
               total_points |-> 30, starts |-> 10, minutes |-> 900, bonus |-> 0,
               clean_sheets |-> 0, goals_scored |-> 0, assists |-> 0, ict10 |-> 0], 4),
       WithId([element_type |-> 4, team |-> 2, now_cost |-> 140, form10 |-> 80,
               total_points |-> 200, starts |-> 30, minutes |-> 2600, bonus |-> 30,
               clean_sheets |-> 10, goals_scored |-> 25, assists |-> 5, ict10 |-> 3000], 5) >>

\* what teams 1 and 2 play in a gameweek: nothing, one fixture, two fixtures
GameweekOptions(gw) ==
    { <<>>,
      <<Fixture(gw, 1, 2, 3, 2)>>,
      <<Fixture(gw, 1, 2, 4, 2), Fixture(gw, 2, 1, 5, 1)>> }

\* gameweeks 13..15: nothing, or one fixture each
LaterOptions ==
    { <<>>,
      <<Fixture(13, 2, 1, 2, 3), Fixture(14, 1, 2, 5, 4), Fixture(15, 2, 1, 3, 3)>> }

\* the fixture lists of the queries; the fixture of gameweek 16 lies beyond the
\* six gameweeks that get_team_difficulty looks at from gameweek 10
QueryFixtures ==
    { a \o b \o c \o later \o <<Fixture(16, 1, 2, 1, 1)>> :
         a \in GameweekOptions(10), b \in GameweekOptions(11),
         c \in GameweekOptions(12), later \in LaterOptions }

QueryInit ==
    /\ players_df = QueryPlayers
    /\ fixtures_df \in QueryFixtures
    /\ current_gw = 10
    /\ TransferIdle
    /\ ChipIdle
    /\ QueryIdle
    /\ NoRecord
    /\ RequestIdle

Query ==
    \/ \E player_id \in 1..Len(players_df), weeks \in 1..MaxHorizon :
          GetPlayerFixtureDifficulty(player_id, weeks)
    \/ \E player_id \in 1..Len(players_df), gameweeks \in 1..MaxHorizon :
          PredictPlayerPoints(player_id, gameweeks)
    \/ \E weeks \in MinWeeks..MaxHorizon : CalculatePlayerProjections(weeks)

QueryNext == Query \/ QueryReturn

QuerySpec == QueryInit /\ [][QueryNext]_vars

----------------------------------------------------------------------------
(* Properties of the difficulty table and its readers *)

\* team_id has a fixture in gameweek gw
PlaysIn(team_id, gw) ==
    \E i \in 1..Len(fixtures_df) :
        /\ fixtures_df[i].event = gw
        /\ (fixtures_df[i].team_h = team_id \/ fixtures_df[i].team_a = team_id)

\* C13: the list _get_player_fixture_difficulty returns for a horizon of h
\* gameweeks has exactly h entries, one per gameweek from the current one on,
\* with the neutral 3 for a gameweek in which the player's team does not play
ProfileCoversHorizon ==
    (query_pc = "done" /\ query_kind = "difficulty") =>
        /\ Len(player_difficulties) = query_weeks
        /\ \A k \in 1..query_weeks :
              ~PlaysIn(PlayerById(query_player).team, current_gw + k - 1)
                  => player_difficulties[k] = 3

\* C14: the average difficulty the table of get_team_difficulty reports for a
\* team without a fixture in the window, which predict_player_points then uses,
\* is the neutral 3, and every average of the table lies within 1..5
NeutralDefaultDifficulty ==
    query_pc = "done" =>
        \A t \in DOMAIN difficulty_table :
            /\ difficulty_table[t].num_fixtures = 0
                  => difficulty_table[t].avg_difficulty = 3000
            /\ difficulty_table[t].avg_difficulty \in 1000..5000

\* C18: every projection of _calculate_player_projections and every result
\* of predict_player_points is at least 0
NonNegativeProjections ==
    query_pc = "done" =>
        /\ predicted_points >= 0
        /\ \A i \in DOMAIN player_projections : player_projections[i] >= 0

\* a prediction for a player whose product of base points and multipliers is
\* below zero
NonNegativeWitness ==
    /\ query_pc = "done"
    /\ query_kind = "predict"
    /\ PredictedProduct(query_player, query_weeks) < 0
    /\ predicted_points = 0

\* C27: the position adjustment of every player of a projection is between 1.0
\* and 1.2
BoundedPositionAdjustment ==
    (query_pc = "done" /\ query_kind = "projections") =>
        \A i \in 1..Len(players_df) :
            /\ calculate_position_adjustment(players_df[i]) >= 1000
            /\ calculate_position_adjustment(players_df[i]) <= 1200

----------------------------------------------------------------------------
(* The session specification: one caller, one user_strategy and one team   *)
(* list, and calls of optimize_transfers and create_chip_strategy on them  *)
(* in any order                                                            *)

\* a snapshot whose first two rows are the cheaper and the dearer defender of
\* team 1 and whose third row is the cheapest one
SessionSnapshots ==
    { snapshot \in Snapshots :
         /\ snapshot[1].now_cost = 50 /\ snapshot[1].element_type = 2
         /\ snapshot[2].now_cost = 51
         /\ snapshot[3].now_cost = 48 }

\* the team lists of the session
SessionTeams == { {1}, {1, 2} }

\* user_strategy.chips_remaining and planned_chips of the session
SessionChips ==
    { [chips_remaining |-> DictOf([c \in ChipTypes |-> MaxChips]),
       planned_chips |-> <<PlannedChip("wildcard", 25, TRUE)>>],
      [chips_remaining |-> ListOf(<<"bboost">>), planned_chips |-> <<>>] }

SessionInit ==
    /\ players_df \in SessionSnapshots
    /\ fixtures_df = TransferFixtures
    /\ current_gw = 10
    /\ bank \in 0..MaxBank
    /\ free_transfers \in 0..MaxFreeTransfers
    /\ current_team \in SessionTeams
    /\ \E user_strategy \in SessionChips :
          /\ chips_remaining = user_strategy.chips_remaining
          /\ planned_chips = user_strategy.planned_chips
    /\ pc = "idle"
    /\ weeks_ahead = 1
    /\ max_transfers = 0
    /\ allow_hits = FALSE
    /\ transfer_candidates = <<>>
    /\ cursor = 1
    /\ selected_transfers = <<>>
    /\ used_players_out = {}
    /\ used_players_in = {}
    /\ remaining_budget = 0
    /\ recommendations = <<>>
    /\ considered = <<>>
    /\ chip_pc = "idle"
    /\ fixture_analysis = <<>>
    /\ double_gameweeks = <<>>
    /\ blank_gameweeks = <<>>
    /\ strategies = <<>>
    /\ QueryIdle
    /\ NoRecord
    /\ RequestIdle

\* optimizer.optimize_transfers(user_strategy, current_team, weeks, maxt, hits)
SessionOptimize ==
    /\ chip_pc = "idle"
    /\ \E weeks \in 1..MaxWeeks, maxt \in 0..MaxMaxTransfers, hits \in BOOLEAN :
          OptimizeTransfers(bank, free_transfers, current_team, weeks, maxt, hits)

\* the caller has the list and may keep it on record; the locals are gone,
\* user_strategy and current_team are the caller's
SessionReturn ==
    /\ pc = "done"
    /\ pc' = "idle"
    /\ last_call' \in {last_call,
                       CallRecord("optimize_transfers", weeks_ahead, max_transfers,
                                  allow_hits, recommendations)}
    /\ weeks_ahead' = 1
    /\ max_transfers' = 0
    /\ allow_hits' = FALSE
    /\ transfer_candidates' = <<>>
    /\ cursor' = 1
    /\ selected_transfers' = <<>>
    /\ used_players_out' = {}
    /\ used_players_in' = {}
    /\ remaining_budget' = 0
    /\ recommendations' = <<>>
    /\ considered' = <<>>
    /\ UNCHANGED <<bank, free_transfers, current_team>>
    /\ UNCHANGED <<dvars, cvars, qvars, rvars>>

\* planner.create_chip_strategy(user_strategy)
SessionCreateChipStrategy ==
    /\ pc = "idle"
    /\ chip_pc = "idle"
    /\ \E analysis \in {analyze_upcoming_fixtures(LastGameweek - current_gw + 1)} :
          \E double_gws \in {identify_double_gameweeks(analysis, current_gw)},
             blank_gws \in {identify_blank_gameweeks(analysis, current_gw)} :
                PlanChips([chips_remaining |-> chips_remaining,
                           planned_chips |-> planned_chips],
                          analysis, double_gws, blank_gws)
    /\ chip_pc' = "done"
    /\ UNCHANGED <<dvars, tvars, qvars, hvars, rvars>>

SessionChipReturn ==
    /\ chip_pc = "done"
    /\ chip_pc' = "idle"
    /\ last_call' \in {last_call,
                       CallRecord("create_chip_strategy", 0, 0, FALSE, strategies)}
    /\ fixture_analysis' = <<>>
    /\ double_gameweeks' = <<>>
    /\ blank_gameweeks' = <<>>
    /\ strategies' = <<>>
    /\ UNCHANGED <<chips_remaining, planned_chips>>
    /\ UNCHANGED <<dvars, tvars, qvars, rvars>>

SessionNext ==
    \/ SessionOptimize
    \/ SelectExhausted
    \/ SelectBreak
    \/ SkipConstraint
    \/ SkipHit
    \/ Accept
    \/ Convert
    \/ SessionReturn
    \/ SessionCreateChipStrategy
    \/ SessionChipReturn

SessionSpec == SessionInit /\ [][SessionNext]_vars

----------------------------------------------------------------------------
(* Properties of the session *)

InputsUnchanged ==
    [][ /\ bank' = bank
        /\ free_transfers' = free_transfers
        /\ current_team' = current_team
        /\ chips_remaining' = chips_remaining
        /\ planned_chips' = planned_chips ]_vars

\* a call selected a transfer that costs money, and returned: the bookkeeping
\* of the budget moved, the bank did not
InputsUnchangedWitness ==
    /\ pc = "idle"
    /\ last_call.call = "optimize_transfers"
    /\ \E i \in 1..Len(last_call.result) : last_call.result[i].cost_change > 0
    /\ bank > 0

\* C20: within one create_chip_strategy call no two assignments of the same
\* chip type target the same gameweek
DistinctGameweeksPerType ==
    chip_pc = "done" =>
        \A i, j \in 1..Len(strategies) :
            (i # j /\ strategies[i].chip_type = strategies[j].chip_type)
                => strategies[i].planned_gameweek # strategies[j].planned_gameweek

\* C21: every gameweek assigned by create_chip_strategy is after the current
\* gameweek and at most the season's last gameweek
FutureInSeason ==
    chip_pc = "done" =>
        \A i \in 1..Len(strategies) :
            /\ strategies[i].planned_gameweek > current_gw
            /\ strategies[i].planned_gameweek <= LastGameweek

\* C22: no gameweek is returned both by _identify_double_gameweeks and by
\* _identify_blank_gameweeks
DoubleAndBlankDisjoint ==
    chip_pc = "done" =>
        SeqToSet(double_gameweeks) \cap SeqToSet(blank_gameweeks) = {}

\* no gameweek after the current one is in the list of blank gameweeks
NoFutureBlank == \A i \in 1..Len(blank_gameweeks) : blank_gameweeks[i] <= current_gw

\* C23: with a free hit left, a gameweek still to come and no future blank
\* gameweek, the returned list holds a free hit assignment
FreeHitAssignedWithoutBlank ==
    (/\ chip_pc = "done"
     /\ current_gw < LastGameweek
     /\ RemainingCount("freehit") > 0
     /\ NoFutureBlank) => Assigned("freehit") > 0

\* the double gameweeks after the current gameweek
FutureDoubles == {gw \in SeqToSet(double_gameweeks) : gw > current_gw}

\* the chip types planned on double gameweeks first
DoubleFirstTypes == {"bboost", "3xc"}

\* C24: a bench boost or triple captain is assigned to a gameweek that is not
\* in the double gameweek list only when every double gameweek after the
\* current gameweek is assigned to that chip type
DoublesPreferred ==
    chip_pc = "done" =>
        \A t \in DoubleFirstTypes :
            (SeqToSet(AssignedGameweeks(t)) \ SeqToSet(double_gameweeks) # {})
                => FutureDoubles \subseteq SeqToSet(AssignedGameweeks(t))

\* a bench boost on the one future double gameweek and another on a gameweek
\* that is not double
DoublesPreferredWitness ==
    /\ chip_pc = "done"
    /\ FutureDoubles # {}
    /\ SeqToSet(AssignedGameweeks("bboost")) \ SeqToSet(double_gameweeks) # {}
    /\ FutureDoubles \subseteq SeqToSet(AssignedGameweeks("bboost"))

\* the gameweeks still to come that the call did not assign to chip_type
UnassignedFuture(chip_type) ==
    ((current_gw + 1)..LastGameweek) \ SeqToSet(AssignedGameweeks(chip_type))

\* C25: a gameweek that is not double and is assigned to a bench boost or a
\* triple captain has the lowest average difficulty of the gameweeks still to
\* come that are not assigned to that chip type
LowestDifficultyFallback ==
    chip_pc = "done" =>
        \A t \in DoubleFirstTypes :
            \A g \in SeqToSet(AssignedGameweeks(t)) \ SeqToSet(double_gameweeks) :
                \A h \in UnassignedFuture(t) :
                    fixture_analysis[h].avg_difficulty >= fixture_analysis[g].avg_difficulty

\* the candidate gameweeks of the first and of the second wildcard
FirstWildcardWindow == Max(current_gw + 1, 8)..15

SecondWildcardWindow(wc1) == (Max(wc1 + 8, 25) + 1)..Min(35, LastGameweek)

\* the sum of 5 - avg_difficulty over the (up to) 5 gameweeks after gw, in
\* thousandths
RECURSIVE EaseFrom(_, _)
EaseFrom(future_gw, last) ==
    IF future_gw > last THEN 0
    ELSE (5000 - fixture_analysis[future_gw].avg_difficulty) + EaseFrom(future_gw + 1, last)

EaseAfter(gw) == EaseFrom(gw + 1, Min(gw + 5, LastGameweek))

\* the score _find_optimal_wildcard_timing gives to gw
ScoreAfter(gw) == WildcardScore(fixture_analysis, gw + 1, Min(gw + 5, LastGameweek))

\* C26 as claimed: an assigned wildcard gameweek of its window has the largest
\* sum of 5 - avg_difficulty over the 5 following gameweeks of all the
\* candidates of the window
WildcardMaximisesEase ==
    chip_pc = "done" =>
        LET wc == AssignedGameweeks("wildcard")
        IN  /\ (Len(wc) >= 1 /\ wc[1] \in FirstWildcardWindow) =>
                    \A c \in FirstWildcardWindow : EaseAfter(c) <= EaseAfter(wc[1])
            /\ (Len(wc) >= 2 /\ wc[2] \in SecondWildcardWindow(wc[1])) =>
                    \A c \in SecondWildcardWindow(wc[1]) : EaseAfter(c) <= EaseAfter(wc[2])

\* gw has the largest score of the candidates of window, or no candidate scores
\* above 0 and gw is the default outside the window
BestOf(gw, window) ==
    \A c \in window : ScoreAfter(c) <= (IF gw \in window THEN ScoreAfter(gw) ELSE 0)

\* C26, amended: an assigned wildcard gameweek has the largest score of the
\* candidates of its window, the score being twice the sum of 5 - avg_difficulty
\* over the following gameweeks plus 2 for each double gameweek among them; when
\* no candidate scores above 0 the gameweek is the default min_gw
WildcardMaximisesScore ==
    chip_pc = "done" =>
        LET wc == AssignedGameweeks("wildcard")
        IN  /\ Len(wc) >= 1 => BestOf(wc[1], FirstWildcardWindow)
            /\ Len(wc) >= 2 => BestOf(wc[2], SecondWildcardWindow(wc[1]))

\* the first wildcard is a later candidate of its window that scores above an
\* earlier one
WildcardMaximisesScoreWitness ==
    /\ chip_pc = "done"
    /\ LET wc == AssignedGameweeks("wildcard")
       IN  /\ Len(wc) >= 1
           /\ wc[1] \in FirstWildcardWindow
           /\ \E c \in FirstWildcardWindow :
                 c < wc[1] /\ ScoreAfter(c) < ScoreAfter(wc[1])

----------------------------------------------------------------------------
(* ChipPlanner.update_chip_bookmarks *)

\* the gameweeks a user bookmarks
BookmarkGameweeks == {20, 21}

\* user_strategy.planned_chips after the call
update_chip_bookmarks(plans, chip_type, gameweek, locked) ==
    LET OtherType(cs) == cs.chip_type # chip_type
        kept == SelectSeq(plans, OtherType)
    IN  Append(kept, [chip_type |-> chip_type, planned_gameweek |-> gameweek,
                      priority |-> Len(kept) + 1, reason |-> "User bookmarked",
                      locked |-> locked])

UpdateChipBookmarks(chip_type, gameweek, locked) ==
    /\ chip_pc = "idle"
    /\ planned_chips' = update_chip_bookmarks(planned_chips, chip_type, gameweek, locked)
    /\ UNCHANGED <<chip_pc, chips_remaining, fixture_analysis, double_gameweeks,
                   blank_gameweeks, strategies>>
    /\ UNCHANGED <<dvars, tvars, qvars, hvars, rvars>>

BookmarkInit ==
    /\ players_df = <<>>
    /\ fixtures_df = <<>>
    /\ current_gw = 10
    /\ TransferIdle
    /\ ChipIdle
    /\ QueryIdle
    /\ NoRecord
    /\ RequestIdle

BookmarkNext ==
    \E chip_type \in ChipTypes, gameweek \in BookmarkGameweeks, locked \in BOOLEAN :
        UpdateChipBookmarks(chip_type, gameweek, locked)

BookmarkSpec == BookmarkInit /\ [][BookmarkNext]_vars

\* C19: no update_chip_bookmarks call removes a locked plan or replaces its
\* gameweek: a plan that is locked before the call is in planned_chips after it,
\* locked and with its gameweek
LockedPlansKept ==
    [][ \A i \in 1..Len(planned_chips) :
           planned_chips[i].locked =>
               \E j \in 1..Len(planned_chips') :
                   /\ planned_chips'[j].chip_type = planned_chips[i].chip_type
                   /\ planned_chips'[j].planned_gameweek = planned_chips[i].planned_gameweek
                   /\ planned_chips'[j].locked ]_vars

\* C29: the priorities of the plans in planned_chips are pairwise distinct
DistinctPriorities ==
    \A i, j \in 1..Len(planned_chips) :
        i # j => planned_chips[i].priority # planned_chips[j].priority

----------------------------------------------------------------------------
(* FPLApiClient._make_request *)

\* max_attempts
MaxAttempts == 4

\* backoff_seconds, in tenths of a second
BackoffSeconds == 5

\* what session.get can come to: a response with a status, or an error
\* without a response
OkStatus == "200"

RetriedStatuses == {"500", "502", "503", "504", "429"}

OtherErrorStatuses == {"404"}

NoResponseErrors == {"ConnectionError", "Timeout"}

RequestErrors == RetriedStatuses \cup OtherErrorStatuses \cup NoResponseErrors

\* the Retry-After header of an error response, in tenths of a second (0: none)
RetryAfterValues == {0, 30}

\* if attempt < max_attempts, and a guard that lets one more attempt through
MayRetryOnceMore(a) == a <= MaxAttempts

MayRetry(a) == a < MaxAttempts

\* sleep_time = max(backoff_seconds * (2 ** (attempt - 1)), retry_after)
SleepTime(a, e, header) ==
    LET retry_after == IF e \in NoResponseErrors THEN 0 ELSE header
    IN  Max(BackoffSeconds * 2 ^ (a - 1), retry_after)

MakeRequest ==
    /\ request_pc = "idle"
    /\ request_pc' = "attempt"
    /\ attempt' = 1
    /\ attempts_made' = 0
    /\ last_exception' = "none"
    /\ sleep_times' = <<>>
    /\ request_result' = "none"
    /\ UNCHANGED <<dvars, tvars, cvars, qvars, hvars>>

\* the response has status 200: return response.json()
AttemptReturns ==
    /\ request_pc = "attempt"
    /\ attempts_made' = attempts_made + 1
    /\ request_pc' = "returned"
    /\ request_result' = "json"
    /\ UNCHANGED <<attempt, last_exception, sleep_times>>
    /\ UNCHANGED <<dvars, tvars, cvars, qvars, hvars>>

\* except requests.exceptions.RequestException as e
AttemptFails(e, header) ==
    /\ request_pc = "attempt"
    /\ attempts_made' = attempts_made + 1
    /\ last_exception' = e
    /\ IF MayRetry(attempt)
       THEN /\ sleep_times' = Append(sleep_times, SleepTime(attempt, e, header))
            /\ attempt' = attempt + 1
            /\ UNCHANGED <<request_pc, request_result>>
       ELSE /\ request_pc' = "raised"
            /\ request_result' = e
            /\ UNCHANGED <<attempt, sleep_times>>
    /\ UNCHANGED <<dvars, tvars, cvars, qvars, hvars>>

\* the caller has the answer or the error
RequestDone ==
    /\ request_pc \in {"returned", "raised"}
    /\ request_pc' = "idle"
    /\ attempt' = 1
    /\ attempts_made' = 0
    /\ last_exception' = "none"
    /\ sleep_times' = <<>>
    /\ request_result' = "none"
    /\ UNCHANGED <<dvars, tvars, cvars, qvars, hvars>>

RequestInit ==
    /\ players_df = <<>>
    /\ fixtures_df = <<>>
    /\ current_gw = 10
    /\ TransferIdle
    /\ ChipIdle
    /\ QueryIdle
    /\ NoRecord
    /\ RequestIdle

RequestNext ==
    \/ MakeRequest
    \/ AttemptReturns
    \/ \E e \in RequestErrors, header \in RetryAfterValues : AttemptFails(e, header)
    \/ RequestDone

RequestSpec == RequestInit /\ [][RequestNext]_vars

\* C30: a call makes at most 4 attempts; every attempt before the one under way
\* failed and was followed by a sleep; it returns at the first successful
\* attempt and raises the last error right after the 4th failure
RequestBounded ==
    /\ attempts_made <= MaxAttempts
    /\ request_pc = "attempt" =>
          /\ attempt = attempts_made + 1
          /\ attempt <= MaxAttempts
          /\ Len(sleep_times) = attempts_made
    /\ request_pc = "returned" =>
          /\ request_result = "json"
          /\ Len(sleep_times) = attempts_made - 1
    /\ request_pc = "raised" =>
          /\ attempts_made = MaxAttempts
          /\ Len(sleep_times) = MaxAttempts - 1
          /\ last_exception \in RequestErrors
          /\ request_result = last_exception

\* the 4th attempt failed after three sleeps and the error was raised
RequestBoundedWitness ==
    /\ request_pc = "raised"
    /\ attempts_made = MaxAttempts
    /\ Len(sleep_times) = MaxAttempts - 1

====
